---- MODULE Spec2Model ----
(***************************************************************************)
(* Model of the Tic-Tac-Toe React component (src/components/TicTacToe.js): *)
(* the component's state cells, its event handlers, the two timers of the  *)
(* computer opponent, and the move-selection functions.                    *)
(***************************************************************************)
EXTENDS Integers, Sequences, FiniteSets, Bags, TLC

(***************************************************************************)
(* Plain helpers.                                                          *)
(***************************************************************************)
Max(a, b) == IF a >= b THEN a ELSE b

Min(a, b) == IF a <= b THEN a ELSE b

\* Stand-in for JavaScript's Infinity: larger than any minimax score (|score| <= 10).
Infinity == 1000

Cells == 0 .. 8

Players == {"X", "O"}

\* Array(9).fill('')
EmptyBoard == [i \in Cells |-> ""]

\* [...boardState] with newBoard[cellIndex] = player
Place(boardState, cellIndex, player) == [boardState EXCEPT ![cellIndex] = player]

Count(boardState, player) == Cardinality({i \in Cells : boardState[i] = player})

(***************************************************************************)
(* Game logic: the pure functions of the component.                        *)
(***************************************************************************)
winCombos ==
  << <<0, 1, 2>>, <<3, 4, 5>>, <<6, 7, 8>>,
     <<0, 3, 6>>, <<1, 4, 7>>, <<2, 5, 8>>,
     <<0, 4, 8>>, <<2, 4, 6>> >>

\* The value checkWinner returns for "no combination" (null).
NoCombo == << >>

\* Does `player` hold all three cells of the k-th combination?
Holds(boardState, player, k) ==
  /\ boardState[winCombos[k][1]] = player
  /\ boardState[winCombos[k][2]] = player
  /\ boardState[winCombos[k][3]] = player

\* checkWinner returning the last combination held instead of the first.
checkWinnerLast(boardState, player) ==
  LET held == {k \in 1 .. Len(winCombos) : Holds(boardState, player, k)}
  IN  IF held = {} THEN NoCombo
      ELSE winCombos[CHOOSE k \in held : \A j \in held : k >= j]

\* The for-loop over winCombos returns the first combination held; null otherwise.
checkWinner(boardState, player) ==
  LET held == {k \in 1 .. Len(winCombos) : Holds(boardState, player, k)}
  IN  IF held = {} THEN NoCombo
      ELSE winCombos[CHOOSE k \in held : \A j \in held : k <= j]

\* The indices of the empty cells, ascending (map + filter keep array order).
getEmptyCells(boardState) ==
  SelectSeq(<<0, 1, 2, 3, 4, 5, 6, 7, 8>>, LAMBDA i : boardState[i] = "")

RECURSIVE minimax(_, _, _, _, _)
RECURSIVE maxLoop(_, _, _, _, _, _, _)
RECURSIVE minLoop(_, _, _, _, _, _, _)

\* The maximizing for-loop of minimax from the k-th empty cell on, with the
\* loop's running maxEval and alpha; `break` ends it when beta <= alpha.
maxLoop(boardState, depth, emptyCells, k, maxEval, alpha, beta) ==
  IF k > Len(emptyCells) THEN maxEval
  ELSE LET evaluation == minimax(Place(boardState, emptyCells[k], "O"),
                                 depth + 1, FALSE, alpha, beta)
           newMax   == Max(maxEval, evaluation)
           newAlpha == Max(alpha, evaluation)
       IN  IF beta <= newAlpha THEN newMax
           ELSE maxLoop(boardState, depth, emptyCells, k + 1, newMax, newAlpha, beta)

\* The minimizing for-loop of minimax.
minLoop(boardState, depth, emptyCells, k, minEval, alpha, beta) ==
  IF k > Len(emptyCells) THEN minEval
  ELSE LET evaluation == minimax(Place(boardState, emptyCells[k], "X"),
                                 depth + 1, TRUE, alpha, beta)
           newMin  == Min(minEval, evaluation)
           newBeta == Min(beta, evaluation)
       IN  IF newBeta <= alpha THEN newMin
           ELSE minLoop(boardState, depth, emptyCells, k + 1, newMin, alpha, newBeta)

\* minimax with the two win scores exchanged.
minimaxSwapped(boardState, depth, isMaximizing, alpha, beta) ==
  IF checkWinner(boardState, "O") # NoCombo THEN depth - 10
  ELSE IF checkWinner(boardState, "X") # NoCombo THEN 10 - depth
  ELSE IF Len(getEmptyCells(boardState)) = 0 THEN 0
  ELSE IF depth > 6 THEN 0
  ELSE IF isMaximizing
       THEN maxLoop(boardState, depth, getEmptyCells(boardState), 1,
                    -Infinity, alpha, beta)
       ELSE minLoop(boardState, depth, getEmptyCells(boardState), 1,
                    Infinity, alpha, beta)

minimax(boardState, depth, isMaximizing, alpha, beta) ==
  IF checkWinner(boardState, "O") # NoCombo THEN 10 - depth
  ELSE IF checkWinner(boardState, "X") # NoCombo THEN depth - 10
  ELSE IF Len(getEmptyCells(boardState)) = 0 THEN 0
  ELSE IF depth > 6 THEN 0
  ELSE IF isMaximizing
       THEN maxLoop(boardState, depth, getEmptyCells(boardState), 1,
                    -Infinity, alpha, beta)
       ELSE minLoop(boardState, depth, getEmptyCells(boardState), 1,
                    Infinity, alpha, beta)

RECURSIVE minimaxTraced(_, _, _, _, _)
RECURSIVE tracedMaxLoop(_, _, _, _, _, _, _, _)
RECURSIVE tracedMinLoop(_, _, _, _, _, _, _, _)

\* minimax once more, returning with its value whether some call of the
\* search returned at the depth test (line 111) rather than at a win or a
\* full board.  The loops are those of maxLoop and minLoop, carrying the flag.
tracedMaxLoop(boardState, depth, emptyCells, k, maxEval, alpha, beta, capped) ==
  IF k > Len(emptyCells) THEN [value |-> maxEval, capped |-> capped]
  ELSE LET evaluation == minimaxTraced(Place(boardState, emptyCells[k], "O"),
                                       depth + 1, FALSE, alpha, beta)
           newMax   == Max(maxEval, evaluation.value)
           newAlpha == Max(alpha, evaluation.value)
           seen     == capped \/ evaluation.capped
       IN  IF beta <= newAlpha THEN [value |-> newMax, capped |-> seen]
           ELSE tracedMaxLoop(boardState, depth, emptyCells, k + 1, newMax,
                              newAlpha, beta, seen)

tracedMinLoop(boardState, depth, emptyCells, k, minEval, alpha, beta, capped) ==
  IF k > Len(emptyCells) THEN [value |-> minEval, capped |-> capped]
  ELSE LET evaluation == minimaxTraced(Place(boardState, emptyCells[k], "X"),
                                       depth + 1, TRUE, alpha, beta)
           newMin  == Min(minEval, evaluation.value)
           newBeta == Min(beta, evaluation.value)
           seen    == capped \/ evaluation.capped
       IN  IF newBeta <= alpha THEN [value |-> newMin, capped |-> seen]
           ELSE tracedMinLoop(boardState, depth, emptyCells, k + 1, newMin,
                              alpha, newBeta, seen)

\* The traced minimax with the depth test at depth > 4.
minimaxTracedShallow(boardState, depth, isMaximizing, alpha, beta) ==
  IF checkWinner(boardState, "O") # NoCombo
  THEN [value |-> 10 - depth, capped |-> FALSE]
  ELSE IF checkWinner(boardState, "X") # NoCombo
  THEN [value |-> depth - 10, capped |-> FALSE]
  ELSE IF Len(getEmptyCells(boardState)) = 0 THEN [value |-> 0, capped |-> FALSE]
  ELSE IF depth > 4 THEN [value |-> 0, capped |-> TRUE]
  ELSE IF isMaximizing
       THEN tracedMaxLoop(boardState, depth, getEmptyCells(boardState), 1,
                          -Infinity, alpha, beta, FALSE)
       ELSE tracedMinLoop(boardState, depth, getEmptyCells(boardState), 1,
                          Infinity, alpha, beta, FALSE)

minimaxTraced(boardState, depth, isMaximizing, alpha, beta) ==
  IF checkWinner(boardState, "O") # NoCombo
  THEN [value |-> 10 - depth, capped |-> FALSE]
  ELSE IF checkWinner(boardState, "X") # NoCombo
  THEN [value |-> depth - 10, capped |-> FALSE]
  ELSE IF Len(getEmptyCells(boardState)) = 0 THEN [value |-> 0, capped |-> FALSE]
  ELSE IF depth > 6 THEN [value |-> 0, capped |-> TRUE]
  ELSE IF isMaximizing
       THEN tracedMaxLoop(boardState, depth, getEmptyCells(boardState), 1,
                          -Infinity, alpha, beta, FALSE)
       ELSE tracedMinLoop(boardState, depth, getEmptyCells(boardState), 1,
                          Infinity, alpha, beta, FALSE)

(***************************************************************************)
(* The opponents table and the random source.                              *)
(***************************************************************************)
OpponentIds == {"alex", "maya", "victor"}

\* opponents[id].difficulty
difficulty(id) ==
  CASE id = "alex" -> "easy" [] id = "maya" -> "medium" [] id = "victor" -> "expert"

\* opponents[id].errorRate in hundredths (0.3, 0.15, 0.05).
errorRate(id) ==
  CASE id = "alex" -> 30 [] id = "maya" -> 15 [] id = "victor" -> 5

\* The threshold 0.6 of the easy profile's strategic/random mix, in hundredths.
EasyStrategicRate == 60

\* Values Math.random() may return, in hundredths (v stands for v/100).  The
\* set separates every threshold (0.05, 0.15, 0.3, 0.6) and, for every array
\* length up to 9, reaches every index through Math.floor(random * length).
Rand == {0, 12, 23, 34, 45, 56, 67, 78, 89}

\* array[Math.floor(Math.random() * array.length)] with Math.random() = r/100
randomPick(array, r) == array[((r * Len(array)) \div 100) + 1]

\* The value getBestMove returns on a full board (null).
NoMove == -1

(***************************************************************************)
(* Move selection.                                                         *)
(***************************************************************************)
\* getStrategicMove preferring the center without testing that it is empty.
getStrategicMoveCenterAlways(boardState, r) ==
  LET emptyCells == getEmptyCells(boardState)
      winning  == SelectSeq(emptyCells,
                    LAMBDA c : checkWinner(Place(boardState, c, "O"), "O") # NoCombo)
      blocking == SelectSeq(emptyCells,
                    LAMBDA c : checkWinner(Place(boardState, c, "X"), "X") # NoCombo)
  IN  IF Len(winning) > 0 THEN winning[1]
      ELSE IF Len(blocking) > 0 THEN blocking[1]
      ELSE 4

\* getStrategicMove with the two loops exchanged: it blocks before it wins.
getStrategicMoveBlockFirst(boardState, r) ==
  LET emptyCells == getEmptyCells(boardState)
      winning  == SelectSeq(emptyCells,
                    LAMBDA c : checkWinner(Place(boardState, c, "O"), "O") # NoCombo)
      blocking == SelectSeq(emptyCells,
                    LAMBDA c : checkWinner(Place(boardState, c, "X"), "X") # NoCombo)
      availableCorners == SelectSeq(<<0, 2, 6, 8>>, LAMBDA i : boardState[i] = "")
  IN  IF Len(blocking) > 0 THEN blocking[1]
      ELSE IF Len(winning) > 0 THEN winning[1]
      ELSE IF boardState[4] = "" THEN 4
      ELSE IF Len(availableCorners) > 0 THEN randomPick(availableCorners, r)
      ELSE randomPick(emptyCells, r)

\* getStrategicMove; r is the value of the one Math.random() call it may make.
getStrategicMove(boardState, r) ==
  LET emptyCells == getEmptyCells(boardState)
      winning  == SelectSeq(emptyCells,
                    LAMBDA c : checkWinner(Place(boardState, c, "O"), "O") # NoCombo)
      blocking == SelectSeq(emptyCells,
                    LAMBDA c : checkWinner(Place(boardState, c, "X"), "X") # NoCombo)
      availableCorners == SelectSeq(<<0, 2, 6, 8>>, LAMBDA i : boardState[i] = "")
  IN  IF Len(winning) > 0 THEN winning[1]
      ELSE IF Len(blocking) > 0 THEN blocking[1]
      ELSE IF boardState[4] = "" THEN 4
      ELSE IF Len(availableCorners) > 0 THEN randomPick(availableCorners, r)
      ELSE randomPick(emptyCells, r)

RECURSIVE expertLoop(_, _, _, _, _)

\* The for-loop of the expert case with moveValue >= bestValue: the last of
\* the best cells is kept instead of the first.
expertLoopLast(boardState, emptyCells, k, bestMove, bestValue) ==
  IF k > Len(emptyCells) THEN bestMove
  ELSE LET moveValue == minimax(Place(boardState, emptyCells[k], "O"), 0, FALSE,
                                -Infinity, Infinity)
       IN  IF moveValue >= bestValue
           THEN expertLoop(boardState, emptyCells, k + 1, emptyCells[k], moveValue)
           ELSE expertLoop(boardState, emptyCells, k + 1, bestMove, bestValue)

\* The for-loop of the expert case from the k-th empty cell on, with the
\* loop's running bestMove and bestValue (a strictly greater value replaces).
expertLoop(boardState, emptyCells, k, bestMove, bestValue) ==
  IF k > Len(emptyCells) THEN bestMove
  ELSE LET moveValue == minimax(Place(boardState, emptyCells[k], "O"), 0, FALSE,
                                -Infinity, Infinity)
       IN  IF moveValue > bestValue
           THEN expertLoop(boardState, emptyCells, k + 1, emptyCells[k], moveValue)
           ELSE expertLoop(boardState, emptyCells, k + 1, bestMove, bestValue)

\* The expert case with the comparison reversed (moveValue < bestValue):
\* bestMove stays -1 and the fallback emptyCells[0] is returned.
expertMoveReversed(boardState) == getEmptyCells(boardState)[1]

\* case 'expert' of getBestMove
expertMove(boardState) ==
  LET emptyCells == getEmptyCells(boardState)
      bestMove == expertLoop(boardState, emptyCells, 1, -1, -Infinity)
  IN  IF bestMove # -1 THEN bestMove ELSE emptyCells[1]

\* The boards of the opponent's first turn (one X, nothing else), and the
\* expert case's answer to each.  TLC evaluates this table once, so the
\* search over eight empty cells is not repeated in every state that holds
\* such a board.
OpeningBoards == {Place(EmptyBoard, i, "X") : i \in Cells}

OpeningMoves == {<<b, expertMove(b)>> : b \in OpeningBoards}

\* expertMove(boardState), read from the table on an opening board.
expertChoice(boardState) ==
  IF boardState \in OpeningBoards
  THEN (CHOOSE e \in OpeningMoves : e[1] = boardState)[2]
  ELSE expertMove(boardState)

\* getBestMove for the render whose selectedOpponent is `opponentId`; rnd is
\* the sequence of values the successive Math.random() calls return.
getBestMove(boardState, opponentId, rnd) ==
  LET emptyCells == getEmptyCells(boardState)
  IN  IF Len(emptyCells) = 0 THEN NoMove
      ELSE IF rnd[1] < errorRate(opponentId) THEN randomPick(emptyCells, rnd[2])
      ELSE CASE difficulty(opponentId) = "easy" ->
                  IF rnd[2] < EasyStrategicRate
                  THEN getStrategicMove(boardState, rnd[3])
                  ELSE randomPick(emptyCells, rnd[3])
             [] difficulty(opponentId) = "medium" ->
                  getStrategicMove(boardState, rnd[2])
             [] difficulty(opponentId) = "expert" ->
                  expertChoice(boardState)

(***************************************************************************)
(* Bounds of the model.                                                    *)
(***************************************************************************)
\* Largest number of handler and timer steps in a behaviour of Spec.
MaxSteps == 8

\* In SpecPlay a click goes to one of the first MaxChoice empty cells.
MaxChoice == 2

\* In SpecPlay: largest number of thinking timers pending at once.
MaxPending == 1

\* In SpecPlay: largest score a player is let to reach.
MaxScore == 1

(***************************************************************************)
(* The component's state.  The useState cells keep their names.  `trigger` *)
(* is the 300 ms timer of the useEffect and `pending` the thinking timers  *)
(* opponentMove has started; each holds the values its callback closed     *)
(* over in the render that created it.  A pending timer also records  *)
(* whether initGame has run since it was started, and `steps` counts the   *)
(* steps taken; neither is read by the component.                          *)
(***************************************************************************)
VARIABLES board, currentPlayer, gameFinished, scores, isMuted, gameMode,
          selectedOpponent, isThinking, winnerCells, trigger, pending,
          steps

vars == <<board, currentPlayer, gameFinished, scores, isMuted, gameMode,
          selectedOpponent, isThinking, winnerCells, trigger, pending,
          steps>>

\* No timer armed.
NoTimer == [armed |-> FALSE]

\* What makeMove, getBestMove and opponentMove of one render close over.
Closure(b, finished, thinking, opponentId) ==
  [armed |-> TRUE, board |-> b, gameFinished |-> finished,
   isThinking |-> thinking, selectedOpponent |-> opponentId]

\* The closure of the current render.
CurrentClosure == Closure(board, gameFinished, isThinking, selectedOpponent)

Init ==
  /\ board = EmptyBoard
  /\ currentPlayer = "X"
  /\ gameFinished = FALSE
  /\ scores = [p \in Players |-> 0]
  /\ isMuted = FALSE
  /\ gameMode = "human"
  /\ selectedOpponent = "alex"
  /\ isThinking = FALSE
  /\ winnerCells = NoCombo
  /\ trigger = NoTimer
  /\ pending = EmptyBag
  /\ steps = 0

\* The useEffect without its cleanup: a timer armed by an earlier render is
\* left running when the condition no longer holds.
EffectNoCleanup ==
  trigger' = IF /\ gameMode' = "computer" /\ currentPlayer' = "O"
                /\ ~gameFinished' /\ ~isThinking'
             THEN Closure(board', gameFinished', isThinking', selectedOpponent')
             ELSE trigger

\* The useEffect after the render of the new state: its cleanup clears the
\* timer of the previous render (opponentMove is a new function in every
\* render, so the effect runs again after each one), and it arms a new one
\* with the new render's opponentMove when the condition holds.
Effect ==
  trigger' = IF /\ gameMode' = "computer" /\ currentPlayer' = "O"
                /\ ~gameFinished' /\ ~isThinking'
             THEN Closure(board', gameFinished', isThinking', selectedOpponent')
             ELSE NoTimer

\* handleWin raising both scores.
handleWinBoth(player, winCombo) ==
  /\ winnerCells' = winCombo
  /\ gameFinished' = TRUE
  /\ scores' = [p \in Players |-> scores[p] + 1]

\* handleWin(player, winCombo)
handleWin(player, winCombo) ==
  /\ winnerCells' = winCombo
  /\ gameFinished' = TRUE
  /\ scores' = [scores EXCEPT ![player] = @ + 1]

\* makeMove reading gameFinished and isThinking as they are when it runs,
\* not as its render closed over them.
makeMoveCurrentFlags(c, cellIndex, player) ==
  IF gameFinished \/ c.board[cellIndex] # "" \/ isThinking
  THEN UNCHANGED <<board, currentPlayer, gameFinished, scores, winnerCells>>
  ELSE LET newBoard == Place(c.board, cellIndex, player)
           winCombo == checkWinner(newBoard, player)
       IN  /\ board' = newBoard
           /\ IF winCombo # NoCombo
              THEN /\ handleWin(player, winCombo)
                   /\ UNCHANGED currentPlayer
              ELSE IF Len(getEmptyCells(newBoard)) = 0
              THEN /\ gameFinished' = TRUE
                   /\ UNCHANGED <<currentPlayer, scores, winnerCells>>
              ELSE /\ currentPlayer' = (IF player = "X" THEN "O" ELSE "X")
                   /\ UNCHANGED <<gameFinished, scores, winnerCells>>

\* makeMove declaring the draw one cell early (length <= 1 instead of === 0).
makeMoveEarlyDraw(c, cellIndex, player) ==
  IF c.gameFinished \/ c.board[cellIndex] # "" \/ c.isThinking
  THEN UNCHANGED <<board, currentPlayer, gameFinished, scores, winnerCells>>
  ELSE LET newBoard == Place(c.board, cellIndex, player)
           winCombo == checkWinner(newBoard, player)
       IN  /\ board' = newBoard
           /\ IF winCombo # NoCombo
              THEN /\ handleWin(player, winCombo)
                   /\ UNCHANGED currentPlayer
              ELSE IF Len(getEmptyCells(newBoard)) <= 1
              THEN /\ gameFinished' = TRUE
                   /\ UNCHANGED <<currentPlayer, scores, winnerCells>>
              ELSE /\ currentPlayer' = (IF player = "X" THEN "O" ELSE "X")
                   /\ UNCHANGED <<gameFinished, scores, winnerCells>>

\* makeMove(cellIndex, player) of the render with closure c: the guard and
\* the new board come from the values c closed over.
makeMove(c, cellIndex, player) ==
  IF c.gameFinished \/ c.board[cellIndex] # "" \/ c.isThinking
  THEN UNCHANGED <<board, currentPlayer, gameFinished, scores, winnerCells>>
  ELSE LET newBoard == Place(c.board, cellIndex, player)
           winCombo == checkWinner(newBoard, player)
       IN  /\ board' = newBoard
           /\ IF winCombo # NoCombo
              THEN /\ handleWin(player, winCombo)
                   /\ UNCHANGED currentPlayer
              ELSE IF Len(getEmptyCells(newBoard)) = 0
              THEN /\ gameFinished' = TRUE
                   /\ UNCHANGED <<currentPlayer, scores, winnerCells>>
              ELSE /\ currentPlayer' = (IF player = "X" THEN "O" ELSE "X")
                   /\ UNCHANGED <<gameFinished, scores, winnerCells>>

\* handleCellClick passing 'X' instead of currentPlayer.
handleCellClickAsX(cellIndex) ==
  /\ IF gameMode = "computer" /\ currentPlayer = "O"
     THEN UNCHANGED <<board, currentPlayer, gameFinished, scores, winnerCells>>
     ELSE makeMove(CurrentClosure, cellIndex, "X")
  /\ UNCHANGED <<isMuted, gameMode, selectedOpponent, isThinking, pending>>
  /\ Effect

\* handleCellClick without the early return on the opponent's turn.
handleCellClickAnyTurn(cellIndex) ==
  /\ makeMove(CurrentClosure, cellIndex, currentPlayer)
  /\ UNCHANGED <<isMuted, gameMode, selectedOpponent, isThinking, pending>>
  /\ Effect

\* handleCellClick(cellIndex)
handleCellClick(cellIndex) ==
  /\ IF gameMode = "computer" /\ currentPlayer = "O"
     THEN UNCHANGED <<board, currentPlayer, gameFinished, scores, winnerCells>>
     ELSE makeMove(CurrentClosure, cellIndex, currentPlayer)
  /\ UNCHANGED <<isMuted, gameMode, selectedOpponent, isThinking, pending>>
  /\ Effect

\* The bag of pending timers with every one marked as started before an
\* initGame call.
Outdated(timers) ==
  LET marked(t) == [t EXCEPT !.stale = TRUE]
      old == BagToSet(timers)
  IN  [m \in {marked(t) : t \in old} |->
         LET same == {t \in old : marked(t) = m}
             RECURSIVE total(_)
             total(ts) == IF ts = {} THEN 0
                          ELSE LET t == CHOOSE x \in ts : TRUE
                               IN  timers[t] + total(ts \ {t})
         IN  total(same)]

\* initGame without setWinnerCells([]).
initGameKeepWinner ==
  /\ pending' = Outdated(pending)
  /\ board' = EmptyBoard
  /\ currentPlayer' = "X"
  /\ gameFinished' = FALSE
  /\ isThinking' = FALSE
  /\ UNCHANGED winnerCells

\* The state updates of initGame.  No timer is cleared.
initGame ==
  /\ pending' = Outdated(pending)
  /\ board' = EmptyBoard
  /\ currentPlayer' = "X"
  /\ gameFinished' = FALSE
  /\ isThinking' = FALSE
  /\ winnerCells' = NoCombo

\* The "New Game" button: onClick={initGame}
Restart ==
  /\ initGame
  /\ UNCHANGED <<scores, isMuted, gameMode, selectedOpponent>>
  /\ Effect

toggleMute ==
  /\ isMuted' = ~isMuted
  /\ UNCHANGED <<board, currentPlayer, gameFinished, scores, gameMode,
                 selectedOpponent, isThinking, winnerCells, pending>>
  /\ Effect

\* resetScore that also starts a new game.
resetScoreRestart ==
  /\ scores' = [p \in Players |-> 0]
  /\ initGame
  /\ UNCHANGED <<isMuted, gameMode, selectedOpponent>>
  /\ Effect

\* resetScore that also clears the finished flag.
resetScoreReopen ==
  /\ scores' = [p \in Players |-> 0]
  /\ gameFinished' = FALSE
  /\ UNCHANGED <<board, currentPlayer, isMuted, gameMode,
                 selectedOpponent, isThinking, winnerCells, pending>>
  /\ Effect

resetScore ==
  /\ scores' = [p \in Players |-> 0]
  /\ UNCHANGED <<board, currentPlayer, gameFinished, isMuted, gameMode,
                 selectedOpponent, isThinking, winnerCells, pending>>
  /\ Effect

switchMode(mode) ==
  /\ gameMode' = mode
  /\ initGame
  /\ UNCHANGED <<scores, isMuted, selectedOpponent>>
  /\ Effect

\* selectOpponent without the initGame call.
selectOpponentKeepGame(opponentId) ==
  /\ gameMode = "computer"
  /\ selectedOpponent' = opponentId
  /\ UNCHANGED <<board, currentPlayer, gameFinished, isThinking,
                 winnerCells, pending>>
  /\ UNCHANGED <<scores, isMuted, gameMode>>
  /\ Effect

\* selectOpponent(opponentId); the opponent cards are rendered in computer
\* mode only.
selectOpponent(opponentId) ==
  /\ gameMode = "computer"
  /\ selectedOpponent' = opponentId
  /\ IF gameMode = "computer"
     THEN initGame
     ELSE UNCHANGED <<board, currentPlayer, gameFinished, isThinking,
                      winnerCells, pending>>
  /\ UNCHANGED <<scores, isMuted, gameMode>>
  /\ Effect

\* The thinking timer opponentMove starts, with the closure of its render.
Scheduled(c) == [closure |-> c, stale |-> FALSE]

\* The 300 ms timer fires: opponentMove() of the render that armed it.
opponentMove ==
  /\ trigger.armed
  /\ IF trigger.gameFinished \/ trigger.isThinking
     THEN UNCHANGED <<isThinking, pending>>
     ELSE /\ isThinking' = TRUE
          /\ pending' = pending (+) SetToBag({Scheduled(trigger)})
  /\ UNCHANGED <<board, currentPlayer, gameFinished, scores, isMuted, gameMode,
                 selectedOpponent, winnerCells>>
  /\ Effect

\* The sequences of Math.random() values a completion is checked with, by
\* profile.  The first draw is 0 (below every error rate) or 89 (above all of
\* them); a draw that picks an array element ranges over Rand, the easy
\* profile's mix draw over both sides of its threshold; a draw the call never
\* makes is 0.
Draws(opponentId) ==
  {<<0, r, 0>> : r \in Rand}
    \cup CASE difficulty(opponentId) = "easy" ->
                {<<89, r2, r3>> : r2 \in {0, 89}, r3 \in Rand}
           [] difficulty(opponentId) = "medium" -> {<<89, r, 0>> : r \in Rand}
           [] difficulty(opponentId) = "expert" -> {<<89, 0, 0>>}

\* The thinking timer t fires: the setTimeout callback of opponentMove, with
\* getBestMove, board and makeMove of the render that started it.
opponentCompletion(t, rnd) ==
  /\ BagIn(t, pending)
  /\ pending' = pending (-) SetToBag({t})
  /\ LET bestMoveIndex == getBestMove(t.closure.board,
                                      t.closure.selectedOpponent, rnd)
     IN  IF bestMoveIndex # NoMove
         THEN makeMove(t.closure, bestMoveIndex, "O")
         ELSE UNCHANGED <<board, currentPlayer, gameFinished, scores, winnerCells>>
  /\ isThinking' = FALSE
  /\ UNCHANGED <<isMuted, gameMode, selectedOpponent>>
  /\ Effect

\* One more step of the behaviour.
Tick == steps < MaxSteps /\ steps' = steps + 1

Next ==
  \/ \E cellIndex \in Cells : Tick /\ handleCellClick(cellIndex)
  \/ Tick /\ Restart
  \/ Tick /\ toggleMute
  \/ Tick /\ resetScore
  \/ \E mode \in {"human", "computer"} : Tick /\ switchMode(mode)
  \/ \E opponentId \in OpponentIds : Tick /\ selectOpponent(opponentId)
  \/ Tick /\ opponentMove
  \/ \E t \in BagToSet(pending) : \E rnd \in Draws(t.closure.selectedOpponent) :
          Tick /\ opponentCompletion(t, rnd)

Spec == Init /\ [][Next]_vars

(***************************************************************************)
(* SpecPlay: whole games, one after another, with no bound on the number   *)
(* of steps.  Clicks go to the first empty cells only, and the scores and  *)
(* the number of pending timers are capped.                                *)
(***************************************************************************)
Capped ==
  /\ BagCardinality(pending') <= MaxPending
  /\ \A p \in Players : scores'[p] <= MaxScore
  /\ UNCHANGED steps

\* The first MaxChoice empty cells of the board.
FirstEmpty ==
  LET emptyCells == getEmptyCells(board)
  IN  {emptyCells[k] : k \in 1 .. Min(MaxChoice, Len(emptyCells))}

NextPlay ==
  \/ \E cellIndex \in FirstEmpty : handleCellClick(cellIndex) /\ Capped
  \/ Restart /\ Capped
  \/ \E mode \in {"human", "computer"} : switchMode(mode) /\ Capped
  \/ opponentMove /\ Capped
  \/ \E t \in BagToSet(pending) : \E rnd \in Draws(t.closure.selectedOpponent) :
          opponentCompletion(t, rnd) /\ Capped

SpecPlay == Init /\ [][NextPlay]_vars

(***************************************************************************)
(* SpecExpert: one game against the expert profile.  Computer mode and the *)
(* profile are chosen on the empty board before the first click; after     *)
(* that there are only clicks and the two timers, and the error injection  *)
(* of getBestMove never fires (its first draw is 0.89).                    *)
(***************************************************************************)
NoInjection == {<<89, 0, 0>>}

BeforeFirstMove == board = EmptyBoard /\ pending = EmptyBag

NextExpert ==
  \/ /\ BeforeFirstMove /\ gameMode = "human"
     /\ switchMode("computer") /\ UNCHANGED steps
  \/ /\ BeforeFirstMove /\ selectedOpponent # "victor"
     /\ selectOpponent("victor") /\ UNCHANGED steps
  \/ \E cellIndex \in Cells :
       /\ gameMode = "computer" /\ selectedOpponent = "victor"
       /\ handleCellClick(cellIndex) /\ UNCHANGED steps
  \/ opponentMove /\ UNCHANGED steps
  \/ \E t \in BagToSet(pending) : \E rnd \in NoInjection :
          opponentCompletion(t, rnd) /\ UNCHANGED steps

SpecExpert == Init /\ [][NextExpert]_vars

(***************************************************************************)
(* SpecGame: one game from the first render to its end, between two humans *)
(* or against any profile with every sequence of draws.  The mode and the  *)
(* profile are chosen on the empty board before the first click; clicks go *)
(* to any cell.                                                            *)
(***************************************************************************)
NextGame ==
  \/ /\ BeforeFirstMove /\ gameMode = "human"
     /\ switchMode("computer") /\ UNCHANGED steps
  \/ \E opponentId \in OpponentIds :
       /\ BeforeFirstMove /\ selectedOpponent # opponentId
       /\ selectOpponent(opponentId) /\ UNCHANGED steps
  \/ \E cellIndex \in Cells : handleCellClick(cellIndex) /\ UNCHANGED steps
  \/ opponentMove /\ UNCHANGED steps
  \/ \E t \in BagToSet(pending) : \E rnd \in Draws(t.closure.selectedOpponent) :
          opponentCompletion(t, rnd) /\ UNCHANGED steps

SpecGame == Init /\ [][NextGame]_vars

\* A timer that stays armed fires: the 300 ms trigger and the thinking timers.
TimersFair ==
  /\ WF_vars(opponentMove /\ UNCHANGED steps)
  /\ WF_vars(\E t \in BagToSet(pending) :
               \E rnd \in Draws(t.closure.selectedOpponent) :
                 opponentCompletion(t, rnd) /\ UNCHANGED steps)

SpecGameFair == SpecGame /\ TimersFair

(***************************************************************************)
(* SpecPolicy: the opponent's turn on every board it can be asked to move  *)
(* on.  It starts in computer mode on any board without a winner where X   *)
(* has moved once more than O, under any profile, and lets the two timers  *)
(* fire with every sequence of draws.                                      *)
(***************************************************************************)
OpponentBoards ==
  {b \in [Cells -> {"", "X", "O"}] :
     /\ Count(b, "X") = Count(b, "O") + 1
     /\ checkWinner(b, "X") = NoCombo
     /\ checkWinner(b, "O") = NoCombo
     /\ Len(getEmptyCells(b)) > 0}

InitPolicy ==
  /\ board \in OpponentBoards
  /\ currentPlayer = "O"
  /\ gameFinished = FALSE
  /\ scores = [p \in Players |-> 0]
  /\ isMuted = FALSE
  /\ gameMode = "computer"
  /\ selectedOpponent \in OpponentIds
  /\ isThinking = FALSE
  /\ winnerCells = NoCombo
  /\ trigger = CurrentClosure
  /\ pending = EmptyBag
  /\ steps = 0

NextPolicy ==
  \/ opponentMove /\ UNCHANGED steps
  \/ \E t \in BagToSet(pending) : \E rnd \in Draws(t.closure.selectedOpponent) :
          opponentCompletion(t, rnd) /\ UNCHANGED steps

SpecPolicy == InitPolicy /\ [][NextPolicy]_vars

(***************************************************************************)
(* SpecRules: the rule and move-selection functions on every board.        *)
(* checkWinner is called on boards of the game and on the hypothetical     *)
(* boards of the move search, and getBestMove takes any board, so the      *)
(* board starts as any assignment of "", "X", "O" to the nine cells:       *)
(* in human mode with either player to move, where clicks run makeMove     *)
(* with its checkWinner and getEmptyCells calls on it, or in computer mode *)
(* with O to move under any profile, where the two timers run getBestMove  *)
(* on it.                                                                  *)
(***************************************************************************)
AllBoards == [Cells -> {"", "X", "O"}]

InitRules ==
  /\ board \in AllBoards
  /\ \/ /\ gameMode = "human"
        /\ currentPlayer \in Players
        /\ selectedOpponent = "alex"
     \/ /\ gameMode = "computer"
        /\ currentPlayer = "O"
        /\ selectedOpponent \in OpponentIds
  /\ gameFinished = FALSE
  /\ scores = [p \in Players |-> 0]
  /\ isMuted = FALSE
  /\ isThinking = FALSE
  /\ winnerCells = NoCombo
  /\ trigger = IF gameMode = "computer" THEN CurrentClosure ELSE NoTimer
  /\ pending = EmptyBag
  /\ steps = 0

NextRules ==
  \/ \E cellIndex \in Cells :
       gameMode = "human" /\ handleCellClick(cellIndex) /\ UNCHANGED steps
  \/ opponentMove /\ UNCHANGED steps
  \/ \E t \in BagToSet(pending) : \E rnd \in Draws(t.closure.selectedOpponent) :
          opponentCompletion(t, rnd) /\ UNCHANGED steps

SpecRules == InitRules /\ [][NextRules]_vars

(***************************************************************************)
(* Properties.                                                             *)
(***************************************************************************)
\* A step that runs initGame: the New Game button, a mode switch or the
\* choice of an opponent in computer mode.
InitGameStep ==
  \/ Restart
  \/ \E mode \in {"human", "computer"} : switchMode(mode)
  \/ \E opponentId \in OpponentIds : selectOpponent(opponentId)

\* The thinking timer t fires, with some sequence of draws.
Completes(t) ==
  \E rnd \in Draws(t.closure.selectedOpponent) : opponentCompletion(t, rnd)

\* C1: a completion whose timer was started before an initGame call changes
\* nothing of the new game when it fires: board, currentPlayer, gameFinished,
\* winnerCells and scores stay as they were.
C1_StaleCompletionIsNoOp ==
  [][\A t \in BagToSet(pending) :
       (t.stale /\ Completes(t))
         => UNCHANGED <<board, currentPlayer, gameFinished, winnerCells, scores>>]_vars

\* C2: in every reachable state the board holds as many X as O, or one X more.
C2_CountInvariant == Count(board, "X") - Count(board, "O") \in {0, 1}

\* C2 witness: the computer's game after two replies of the opponent and a
\* third click.
C2_Witness ==
  /\ gameMode = "computer"
  /\ Count(board, "X") = 3
  /\ Count(board, "O") = 2

\* C3: a completion that fires while gameFinished is true is a no-op: board,
\* winnerCells, scores and currentPlayer stay as they were.
C3_CompletionOnFinishedIsNoOp ==
  [][\A t \in BagToSet(pending) :
       (gameFinished /\ Completes(t))
         => UNCHANGED <<board, winnerCells, scores, currentPlayer>>]_vars

\* C4: no score rises in a game that is already finished, so between two
\* initGame calls the sum of the scores rises at most once (a move applied
\* again, by a click or by a completion, counts no second win).
C4_ScoreOncePerGame ==
  [][(\E p \in Players : scores'[p] > scores[p]) => ~gameFinished]_vars

\* The step is a win of player p: p's score rises by one, the other score
\* stays, the game is finished and winnerCells is p's line on the new board.
WinStep(p) ==
  /\ scores' = [scores EXCEPT ![p] = @ + 1]
  /\ gameFinished'
  /\ winnerCells' # NoCombo
  /\ winnerCells' = checkWinner(board', p)

\* C5: a step that writes a board on which a player holds a line is a win of
\* that player (finished, winnerCells = the line, that score + 1, the other
\* unchanged), and the scores change in no step but a win and resetScore.
C5_WinScoresOnce ==
  [][/\ \A p \in Players :
          (board' # board /\ checkWinner(board', p) # NoCombo) => WinStep(p)
     /\ scores' # scores
          => (scores' = [p \in Players |-> 0] \/ \E p \in Players : WinStep(p))]_vars

\* C5 witness: O has completed a line and holds the only point.
C5_Witness ==
  /\ gameFinished
  /\ winnerCells # NoCombo
  /\ board[winnerCells[1]] = "O"
  /\ scores = [p \in Players |-> IF p = "O" THEN 1 ELSE 0]

\* C6: in a game against the expert profile with no error injection, X never
\* holds a complete line.
C6_ExpertNeverLoses ==
  (gameMode = "computer" /\ selectedOpponent = "victor")
    => checkWinner(board, "X") = NoCombo

\* C6 witness: a game against the expert that X opened at the center, played
\* to a full board without a winner.
C6_Witness ==
  /\ selectedOpponent = "victor"
  /\ gameFinished
  /\ winnerCells = NoCombo
  /\ Len(getEmptyCells(board)) = 0
  /\ Count(board, "O") = 4
  /\ board[4] = "X"

\* The empty cells that complete a line for O.
WinningCells(boardState) ==
  {c \in Cells : /\ boardState[c] = ""
                 /\ checkWinner(Place(boardState, c, "O"), "O") # NoCombo}

\* C7: on a board without a winner where O is to move and some empty cell
\* completes a line for O, the expert profile without error injection
\* returns such a cell.
C7_ExpertTakesWin ==
  (currentPlayer = "O" /\ ~gameFinished /\ WinningCells(board) # {})
    => getBestMove(board, "victor", <<89, 0, 0>>) \in WinningCells(board)

\* C7 witness: the expert's completion has won from a board with two O.
C7_Witness ==
  /\ selectedOpponent = "victor"
  /\ gameFinished
  /\ winnerCells # NoCombo
  /\ board[winnerCells[1]] = "O"
  /\ Count(board, "O") = 3
  /\ scores["O"] = 1

\* C8: a mark is written only for the player whose turn it is, on the
\* current board, in a game that is not finished.
C8_MarkOnlyInTurn ==
  [][(board' # board /\ board' # EmptyBoard)
       => /\ ~gameFinished
          /\ \E c \in Cells : /\ board[c] = ""
                              /\ board' = Place(board, c, currentPlayer)]_vars

\* C9: a finished game becomes unfinished only by a step that runs initGame.
C9_FinishedUntilInit ==
  [][(gameFinished /\ ~gameFinished') => InitGameStep]_vars

\* C9 witness: the game is won and still finished after resetScore and
\* toggleMute have run on it.
C9_Witness ==
  /\ gameFinished
  /\ winnerCells # NoCombo
  /\ isMuted
  /\ scores = [p \in Players |-> 0]

\* C10: a step that runs initGame ends with an empty board, X to move, the
\* game unfinished, the thinking flag cleared, winnerCells empty, and both
\* scores as before.
C10_InitGameResets ==
  [][InitGameStep
       => /\ board' = EmptyBoard
          /\ currentPlayer' = "X"
          /\ ~gameFinished'
          /\ ~isThinking'
          /\ winnerCells' = NoCombo
          /\ scores' = scores]_vars

\* C10 witness: a new game has begun after a won one, the point kept.
C10_Witness ==
  /\ board = EmptyBoard
  /\ currentPlayer = "X"
  /\ ~gameFinished
  /\ winnerCells = NoCombo
  /\ scores = [p \in Players |-> IF p = "X" THEN 1 ELSE 0]

\* C11: the profile never changes in the middle of a game against the
\* computer: a step in computer mode that changes selectedOpponent, and a
\* switchMode step, ends with an empty board, X to move and the game
\* unfinished, and keeps both scores.
C11_ProfileChangeRestarts ==
  [][(\/ gameMode = "computer" /\ selectedOpponent' # selectedOpponent
      \/ \E mode \in {"human", "computer"} : switchMode(mode))
       => /\ board' = EmptyBoard
          /\ currentPlayer' = "X"
          /\ ~gameFinished'
          /\ scores' = scores]_vars

\* C11 witness: another profile was chosen while alex was thinking about a
\* board with one X; the board is empty again and that timer is still pending.
C11_Witness ==
  /\ gameMode = "computer"
  /\ selectedOpponent = "victor"
  /\ board = EmptyBoard
  /\ currentPlayer = "X"
  /\ \E t \in BagToSet(pending) :
       /\ t.stale
       /\ t.closure.selectedOpponent = "alex"
       /\ Count(t.closure.board, "X") = 1

\* A click on cellIndex that the handlers reject.
Rejected(cellIndex) ==
  \/ gameFinished
  \/ board[cellIndex] # ""
  \/ isThinking
  \/ gameMode = "computer" /\ currentPlayer = "O"

\* C12: a click on a cell while the game is finished, the cell is occupied,
\* the opponent is thinking, or it is O's turn in computer mode changes
\* nothing: board, currentPlayer, gameFinished, winnerCells, scores and
\* isThinking stay as they were.
C12_RejectedClickNoChange ==
  [][\A cellIndex \in Cells :
       (Rejected(cellIndex) /\ handleCellClick(cellIndex))
         => UNCHANGED <<board, currentPlayer, gameFinished, winnerCells,
                        scores, isThinking>>]_vars

\* C12 witness: in computer mode the opponent is thinking about the board
\* with one X, and one step more than the three that lead there was taken
\* (a click in this state is rejected on every ground but a finished game).
C12_Witness ==
  /\ gameMode = "computer"
  /\ currentPlayer = "O"
  /\ isThinking
  /\ ~isMuted
  /\ Count(board, "X") = 1
  /\ BagCardinality(pending) = 1
  /\ steps = 4

\* C13: for every board and each player, checkWinner returns the earliest
\* combination, in the order rows 0-1-2, 3-4-5, 6-7-8, columns 0-3-6, 1-4-7,
\* 2-5-8, diagonals 0-4-8, 2-4-6, whose three cells all hold that player; it
\* returns none exactly when the player holds no combination; and the cells of
\* a returned combination all hold the same non-empty symbol.
C13_CheckWinnerFirstCombo ==
  \A p \in Players :
    LET order == << <<0, 1, 2>>, <<3, 4, 5>>, <<6, 7, 8>>,
                    <<0, 3, 6>>, <<1, 4, 7>>, <<2, 5, 8>>,
                    <<0, 4, 8>>, <<2, 4, 6>> >>
        full(k) == \A n \in 1 .. 3 : board[order[k][n]] = p
        r == checkWinner(board, p)
    IN  /\ (r = NoCombo) <=> (\A k \in 1 .. 8 : ~full(k))
        /\ r # NoCombo
             => /\ \E k \in 1 .. 8 : /\ r = order[k]
                                      /\ full(k)
                                      /\ \A j \in 1 .. k - 1 : ~full(j)
                /\ board[r[1]] # ""
                /\ board[r[1]] = board[r[2]]
                /\ board[r[2]] = board[r[3]]

\* C13 witness: a click completed the top row and the left column for X at
\* once, and winnerCells is the row, the earlier of the two.
C13_Witness ==
  /\ gameFinished
  /\ winnerCells = <<0, 1, 2>>
  /\ Holds(board, "X", 1)
  /\ Holds(board, "X", 4)
  /\ scores["X"] = 1

RECURSIVE referenceValue(_, _, _)

\* Plain minimax, with no pruning and no depth cap: the value for O of the
\* position boardState at `depth`, with `player` to move.
referenceValue(boardState, depth, player) ==
  LET line(p) == \E k \in 1 .. Len(winCombos) : Holds(boardState, p, k)
      free == {c \in Cells : boardState[c] = ""}
      other == IF player = "O" THEN "X" ELSE "O"
      values == {referenceValue(Place(boardState, c, player), depth + 1, other) :
                   c \in free}
  IN  IF line("O") THEN 10 - depth
      ELSE IF line("X") THEN depth - 10
      ELSE IF free = {} THEN 0
      ELSE IF player = "O"
           THEN CHOOSE v \in values : \A w \in values : v >= w
           ELSE CHOOSE v \in values : \A w \in values : v <= w

\* The lowest empty cell whose position after O plays there has the highest
\* plain minimax value.
referenceMove(boardState) ==
  LET free == {c \in Cells : boardState[c] = ""}
      value == [c \in free |-> referenceValue(Place(boardState, c, "O"), 0, "X")]
      best == {c \in free : \A d \in free : value[c] >= value[d]}
  IN  CHOOSE c \in best : \A d \in best : c <= d

\* C14: on every board without a winner where O is to move (the board a
\* pending thinking timer will pass to getBestMove), the expert profile
\* without error injection returns the lowest empty cell that
\* maximizes the plain minimax value (no pruning, no depth cap; 10 - depth
\* for an O win, depth - 10 for an X win, 0 for a draw).
C14_ExpertIsReferenceMinimax ==
  \A t \in BagToSet(pending) :
    t.closure.selectedOpponent = "victor"
      => getBestMove(t.closure.board, "victor", <<89, 0, 0>>)
           = referenceMove(t.closure.board)

\* C14 witness: the expert has answered X's opening in a corner with the
\* cell the plain minimax names.
C14_Witness ==
  /\ selectedOpponent = "victor"
  /\ currentPlayer = "X"
  /\ ~isThinking
  /\ board[0] = "X"
  /\ Count(board, "X") = 1
  /\ Count(board, "O") = 1
  /\ board[referenceMove(Place(EmptyBoard, 0, "X"))] = "O"

\* The empty cells of boardState that give `player` a complete line when
\* filled with its symbol.
Completing(boardState, player) ==
  {c \in Cells :
     /\ boardState[c] = ""
     /\ \E k \in 1 .. Len(winCombos) : Holds(Place(boardState, c, player), player, k)}

\* C15: on every board with an empty cell, the medium profile without error
\* injection returns, for every value of its random draw: a cell that
\* completes a line for O if there is one; else a cell that would complete a
\* line for X if there is one; else cell 4 if it is empty; else an empty
\* corner (0, 2, 6, 8) if there is one; else an empty cell.
C15_StrategicPriority ==
  \A t \in BagToSet(pending) :
    LET b == t.closure.board
        emptyCorners == {c \in {0, 2, 6, 8} : b[c] = ""}
    IN  (t.closure.selectedOpponent = "maya" /\ \E c \in Cells : b[c] = "")
          => \A r \in Rand :
               LET m == getBestMove(b, "maya", <<89, r, 0>>)
               IN  IF Completing(b, "O") # {} THEN m \in Completing(b, "O")
                   ELSE IF Completing(b, "X") # {} THEN m \in Completing(b, "X")
                   ELSE IF b[4] = "" THEN m = 4
                   ELSE IF emptyCorners # {} THEN m \in emptyCorners
                   ELSE m \in Cells /\ b[m] = ""

\* C15 witness: the medium profile has blocked the top row: X on 0 and 1
\* with the center free, O placed on 2.
C15_Witness ==
  /\ gameMode = "computer"
  /\ selectedOpponent = "maya"
  /\ currentPlayer = "X"
  /\ ~isThinking
  /\ pending = EmptyBag
  /\ board = [i \in Cells |-> IF i \in {0, 1} THEN "X" ELSE IF i = 2 THEN "O" ELSE ""]

\* `player` holds a complete line on boardState.
Line(boardState, player) ==
  \E k \in 1 .. Len(winCombos) : Holds(boardState, player, k)

Full(boardState) == \A c \in Cells : boardState[c] # ""

\* The step fills the last empty cell of the board with a mark that gives
\* its player no line.
FillsLastCell ==
  \E c \in Cells, p \in Players :
    /\ board[c] = ""
    /\ board' = Place(board, c, p)
    /\ Full(board')
    /\ ~Line(board', p)

\* C16: a move that fills the last empty cell without a line for the mover
\* finishes the game as a draw (gameFinished true, winnerCells empty before
\* and after, both scores as before); and a step that finishes a game with
\* winnerCells empty leaves a full board on which neither X nor O holds a
\* line.
C16_DrawOnFullBoard ==
  [][/\ FillsLastCell
          => /\ gameFinished'
             /\ winnerCells = NoCombo
             /\ winnerCells' = NoCombo
             /\ scores' = scores
     /\ (~gameFinished /\ gameFinished' /\ winnerCells' = NoCombo)
          => /\ Full(board')
             /\ \A p \in Players : ~Line(board', p)]_vars

\* C16 witness: a game against the computer has ended in a draw on a full
\* board, no score given.
C16_Witness ==
  /\ gameMode = "computer"
  /\ gameFinished
  /\ winnerCells = NoCombo
  /\ Full(board)
  /\ \A p \in Players : ~Line(board, p)
  /\ scores = [p \in Players |-> 0]

\* C17: getBestMove called on a board with no empty cell does not return
\* normally: no step is the completion of a thinking timer whose board is
\* full, ending as every other completion does with the value ignored and
\* the thinking flag cleared.
C17_FullBoardCallFails ==
  [][\A t \in BagToSet(pending) : Full(t.closure.board) => ~Completes(t)]_vars

\* C18: a resetScore step, and any step that brings the scores back to
\* zero, sets both scores to 0 and leaves board, currentPlayer, gameFinished,
\* winnerCells, isThinking, gameMode and selectedOpponent as they were.
C18_ResetScoreFrame ==
  [][(resetScore \/ (scores' # scores /\ \E p \in Players : scores'[p] < scores[p]))
       => /\ scores' = [p \in Players |-> 0]
          /\ UNCHANGED <<board, currentPlayer, gameFinished, winnerCells,
                         isThinking, gameMode, selectedOpponent>>]_vars

\* C18 witness: X's win on the top row between two humans is still on the
\* board, finished, after the scores were reset.
C18_Witness ==
  /\ gameMode = "human"
  /\ gameFinished
  /\ winnerCells = <<0, 1, 2>>
  /\ board[0] = "X"
  /\ currentPlayer = "X"
  /\ ~isMuted
  /\ scores = [p \in Players |-> 0]

\* C19: in a game against the computer with no restart, mode switch or
\* profile choice after its first move, whenever it is O's turn in the
\* unfinished game with n marks of O on the board, the timers being fair,
\* eventually O has one mark more, the thinking flag is cleared, and it is
\* X's turn or the game is finished.  (The completion is not stopped by the
\* thinking flag opponentMove set: it would leave n marks for ever.)
C19_OpponentEventuallyMoves ==
  \A n \in 0 .. 3 :
    (/\ gameMode = "computer" /\ currentPlayer = "O" /\ ~gameFinished
     /\ Count(board, "O") = n)
      ~> (/\ Count(board, "O") = n + 1
          /\ ~isThinking
          /\ currentPlayer = "X" \/ gameFinished)

\* C19 witness: the medium profile has placed its second mark and it is X's
\* turn again, no timer left.
C19_Witness ==
  /\ gameMode = "computer"
  /\ selectedOpponent = "maya"
  /\ currentPlayer = "X"
  /\ ~gameFinished
  /\ ~isThinking
  /\ pending = EmptyBag
  /\ Count(board, "X") = 2
  /\ Count(board, "O") = 2

\* C20: a restart, mode switch or profile choice during the 300 ms pre-delay
\* cancels the trigger: after the step no trigger is armed, the thinking flag
\* is not set and no thinking timer was started; and a thinking timer is only
\* ever started by the trigger of the current render, for the board as it is
\* then, on O's turn in computer mode, so none is started for the abandoned
\* position later.
C20_TriggerCancelledOnRestart ==
  [][/\ (trigger.armed /\ InitGameStep)
          => /\ ~trigger'.armed
             /\ ~isThinking'
             /\ pending' = Outdated(pending)
     /\ BagCardinality(pending') > BagCardinality(pending)
          => /\ trigger = CurrentClosure
             /\ gameMode = "computer" /\ currentPlayer = "O"
             /\ pending' = pending (+) SetToBag({Scheduled(CurrentClosure)})
             /\ board' = board]_vars

\* C20 witness: three steps into computer mode the board is empty again with
\* another profile chosen, no trigger armed and no thinking timer started
\* (mode switch, X's click, profile choice during the pre-delay).
C20_Witness ==
  /\ gameMode = "computer"
  /\ selectedOpponent = "maya"
  /\ board = EmptyBoard
  /\ ~trigger.armed
  /\ ~isThinking
  /\ pending = EmptyBag
  /\ steps = 3

\* Sequences of Math.random() values for a call of getBestMove: those of
\* Draws, and more first draws on both sides of the profile's error rate.
\* For the easy and medium profiles the first draw is any value of Rand, with
\* second draws on both sides of the easy profile's 0.6 and third draws at
\* both ends; the expert profile's search does not read the draws, so it
\* gets the one value of Rand next above its error rate.
WideDraws(opponentId) ==
  Draws(opponentId)
    \cup IF difficulty(opponentId) = "expert"
         THEN {<<12, 0, 0>>}
         ELSE {<<r1, r2, r3>> : r1 \in Rand, r2 \in {0, 56, 67}, r3 \in {0, 89}}

\* C21: on every board with an empty cell, for every profile and every
\* sequence of random draws, getBestMove returns an index in 0..8 whose cell
\* is empty on the board it was given.
C21_MoveIsEmptyCell ==
  \A t \in BagToSet(pending) :
    LET b == t.closure.board
    IN  (\E c \in Cells : b[c] = "")
          => \A rnd \in WideDraws(t.closure.selectedOpponent) :
               LET m == getBestMove(b, t.closure.selectedOpponent, rnd)
               IN  m \in Cells /\ b[m] = ""

\* C21 witness: the easy profile has answered an X in the corner 0 with a
\* random move to the edge cell 1, which was empty.
C21_Witness ==
  /\ gameMode = "computer"
  /\ selectedOpponent = "alex"
  /\ currentPlayer = "X"
  /\ ~isThinking
  /\ pending = EmptyBag
  /\ board = [i \in Cells |-> IF i = 0 THEN "X" ELSE IF i = 1 THEN "O" ELSE ""]

\* C22: every minimax call the expert case starts on a board of play with O
\* to move (the board of a pending thinking timer: X moved first, at most
\* eight empty cells) ends with a value between -10 and 10, the one minimax
\* returns, and no call of its search returns at the depth test: every leaf
\* is a win for X or O or a full board.
C22_DepthCapNeverCuts ==
  \A t \in BagToSet(pending) :
    t.closure.selectedOpponent = "victor"
      => \A c \in Cells :
           t.closure.board[c] = ""
             => LET newBoard == Place(t.closure.board, c, "O")
                    traced == minimaxTraced(newBoard, 0, FALSE, -Infinity, Infinity)
                IN  /\ traced.value \in -10 .. 10
                    /\ traced.value = minimax(newBoard, 0, FALSE, -Infinity, Infinity)
                    /\ ~traced.capped

\* C22 witness: the expert has answered X's opening at the center, after the
\* deepest searches there are (seven empty cells below each root move).
C22_Witness ==
  /\ selectedOpponent = "victor"
  /\ currentPlayer = "X"
  /\ ~gameFinished
  /\ ~isThinking
  /\ pending = EmptyBag
  /\ board[4] = "X"
  /\ Count(board, "X") = 1
  /\ Count(board, "O") = 1
====
